---- MODULE Spec2Model ----
\* A model of src/streamlit-ui.py: one execution of the script, from the
\* PyPDF2 import through backend resolution, upload, text extraction and the
\* two analysis buttons.  Text is a sequence of one-character strings, so
\* that strip, join, slicing and len are computed as Python computes them.
\* The widget values (uploaded file, checkbox, buttons) are inputs of the
\* execution; show_raw (lines 79, 86-88) only renders and is left out.
EXTENDS Integers, Sequences, FiniteSets, TLC

VARIABLES
  pc,             \* position in the script
  env,            \* what is installed / present on disk for this process
  PyPDF2,         \* module global (line 10-12): TRUE if imported, FALSE if None
  summarize_fn,   \* module global (line 47/58)
  ner_fn,         \* module global (line 48/59)
  hf_summarizer,  \* module global (line 64/70)
  hf_ner,         \* module global (line 65/72)
  probed,         \* the pipeline(...) constructions attempted at lines 70, 72
  bytes_data,     \* Some(pdf) once uploaded.read() has run (line 82)
  use_ocr,        \* the checkbox value (line 78)
  extracted,      \* Some(text) once line 84 has assigned it
  ocr_env,        \* how pdf2image / pytesseract behave during the call of line 84
  lib_calls,      \* what extract_text_from_pdf_bytes asked of pdf2image / pytesseract
  summary,        \* Some(text) once the Summarize handler assigned it
  entities,       \* Some(value) once the Extract Entities handler assigned it
  backend_calls,  \* every call made to a backend by the button handlers
  crash           \* where an uncaught exception ended the script, or "none"

vars ==
  <<pc, env, PyPDF2, summarize_fn, ner_fn, hf_summarizer, hf_ner, probed,
    bytes_data, use_ocr, extracted, ocr_env, lib_calls, summary, entities,
    backend_calls, crash>>

-----------------------------------------------------------------------------
\* Bounds of the model.

\* most pages a modelled PDF has
MaxPages ==
  2

\* most images convert_from_bytes returns
MaxImages ==
  2

\* most pages a modelled PDF of long pages has
MaxLongPages ==
  1

\* length of the long page text (2500 is the spec's chunking scenario)
LongLen ==
  2500

\* Program constant, line 98.
MAX_CHUNK ==
  1000

-----------------------------------------------------------------------------
\* String literals of the program, character by character.

\* "PyPDF2 not installed. Install with: pip install PyPDF2"
PYPDF2_MISSING_MSG ==
  <<
    "P","y","P","D","F","2"," ","n","o","t"," ","i","n","s","t","a","l","l",
    "e","d","."," ","I","n","s","t","a","l","l"," ","w","i","t","h",":"," ",
    "p","i","p"," ","i","n","s","t","a","l","l"," ","P","y","P","D","F","2"
  >>

\* "PDF extraction error: "
PDF_ERROR_PREFIX ==
  <<
    "P","D","F"," ","e","x","t","r","a","c","t","i","o","n"," ","e","r","r",
    "o","r",":"," "
  >>

\* "OCR dependencies missing. Install pdf2image and pytesseract to enable OCR."
OCR_DEPS_MSG ==
  <<
    "O","C","R"," ","d","e","p","e","n","d","e","n","c","i","e","s"," ","m",
    "i","s","s","i","n","g","."," ","I","n","s","t","a","l","l"," ","p","d",
    "f","2","i","m","a","g","e"," ","a","n","d"," ","p","y","t","e","s","s",
    "e","r","a","c","t"," ","t","o"," ","e","n","a","b","l","e"," ","O","C",
    "R","."
  >>

\* "OCR extraction failed: "
OCR_FAILED_PREFIX ==
  <<
    "O","C","R"," ","e","x","t","r","a","c","t","i","o","n"," ","f","a","i",
    "l","e","d",":"," "
  >>

\* "No extractable text found. Try enabling OCR."
NO_TEXT_MSG ==
  <<
    "N","o"," ","e","x","t","r","a","c","t","a","b","l","e"," ","t","e","x",
    "t"," ","f","o","u","n","d","."," ","T","r","y"," ","e","n","a","b","l",
    "i","n","g"," ","O","C","R","."
  >>

\* "No summarization backend available. Install transformers or add summarize_text in code/analysis.py"
NO_SUMMARIZER_MSG ==
  <<
    "N","o"," ","s","u","m","m","a","r","i","z","a","t","i","o","n"," ","b",
    "a","c","k","e","n","d"," ","a","v","a","i","l","a","b","l","e","."," ",
    "I","n","s","t","a","l","l"," ","t","r","a","n","s","f","o","r","m","e",
    "r","s"," ","o","r"," ","a","d","d"," ","s","u","m","m","a","r","i","z",
    "e","_","t","e","x","t"," ","i","n"," ","c","o","d","e","/","a","n","a",
    "l","y","s","i","s",".","p","y"
  >>

\* "No NER backend available. Install transformers or add extract_entities in code/analysis.py"
NO_NER_MSG ==
  <<
    "N","o"," ","N","E","R"," ","b","a","c","k","e","n","d"," ","a","v","a",
    "i","l","a","b","l","e","."," ","I","n","s","t","a","l","l"," ","t","r",
    "a","n","s","f","o","r","m","e","r","s"," ","o","r"," ","a","d","d"," ",
    "e","x","t","r","a","c","t","_","e","n","t","i","t","i","e","s"," ","i",
    "n"," ","c","o","d","e","/","a","n","a","l","y","s","i","s",".","p","y"
  >>

\* "transformers"
TRANSFORMERS_WORD ==
  <<
    "t","r","a","n","s","f","o","r","m","e","r","s"
  >>

\* "code/analysis.py"
ANALYSIS_PATH_WORD ==
  <<
    "c","o","d","e","/","a","n","a","l","y","s","i","s",".","p","y"
  >>

\* "summarize_text"
SUMMARIZE_TEXT_WORD ==
  <<
    "s","u","m","m","a","r","i","z","e","_","t","e","x","t"
  >>

\* "extract_entities"
EXTRACT_ENTITIES_WORD ==
  <<
    "e","x","t","r","a","c","t","_","e","n","t","i","t","i","e","s"
  >>
-----------------------------------------------------------------------------
\* Python values.

\* an unassigned / None-valued name, and a name holding v
None ==
  <<>>

Some(v) ==
  <<v>>

IsSome(o) ==
  Len(o) = 1

SeqUpTo(S, n) ==
  UNION {[1..k -> S] : k \in 0..n}

\* str.strip() with no argument removes leading and trailing whitespace.
IsSpace(c) ==
  c \in {" ", "\n", "\t", "\r"}

strip(s) ==
  IF \A i \in 1..Len(s) : IsSpace(s[i])
    THEN <<>>
    ELSE LET first == CHOOSE i \in 1..Len(s) :
                        ~IsSpace(s[i]) /\ \A j \in 1..(i - 1) : IsSpace(s[j])
             last  == CHOOSE i \in 1..Len(s) :
                        ~IsSpace(s[i]) /\ \A j \in (i + 1)..Len(s) : IsSpace(s[j])
         IN  SubSeq(s, first, last)

\* sep.join(parts)
RECURSIVE join(_, _)
join(sep, parts) ==
  IF Len(parts) = 0 THEN <<>>
  ELSE IF Len(parts) = 1 THEN parts[1]
  ELSE parts[1] \o sep \o join(sep, Tail(parts))

\* str(e) of the exceptions the libraries raise
ExcTexts ==
  {<<"E">>}

-----------------------------------------------------------------------------
\* The inputs of extract_text_from_pdf_bytes: what PyPDF2 makes of the bytes,
\* and how pdf2image / pytesseract behave during the call.

LongText(n) ==
  [i \in 1..n |-> IF i % 3 = 1 THEN "a" ELSE IF i % 3 = 2 THEN "b" ELSE "c"]

\* page texts: short ones, and long ones for the chunking of line 99
ShortTexts ==
  {<<" ">>, <<" ", "a", "\n">>}

LongTexts ==
  {<<" ">>, LongText(MAX_CHUNK), LongText(LongLen)}

\* page.extract_text(): None, a string, or an exception
ShortPageResults ==
  {[kind |-> "none", val |-> <<>>]}
    \cup {[kind |-> "text", val |-> t] : t \in ShortTexts}
    \cup {[kind |-> "fault", val |-> e] : e \in ExcTexts}

LongPageResults ==
  {[kind |-> "text", val |-> t] : t \in LongTexts}

\* The uploaded bytes, described by what PdfReader does with them: it raises
\* (parse = "fault", str(e) = exc) or yields reader.pages.  Empty bytes have
\* no pages.  PDFs have up to MaxPages short pages or up to MaxLongPages
\* long ones.
PdfInputs ==
  {[empty |-> TRUE, parse |-> "fault", exc |-> e, pages |-> <<>>] : e \in ExcTexts}
    \cup {[empty |-> TRUE, parse |-> "ok", exc |-> <<>>, pages |-> <<>>]}
    \cup {[empty |-> FALSE, parse |-> "fault", exc |-> e, pages |-> <<>>] : e \in ExcTexts}
    \cup {[empty |-> FALSE, parse |-> "ok", exc |-> <<>>, pages |-> p] :
            p \in SeqUpTo(ShortPageResults, MaxPages)
                    \cup SeqUpTo(LongPageResults, MaxLongPages)}

OcrTexts ==
  {<<>>, <<"x", "\n">>}

\* pytesseract.image_to_string(img): a string or an exception
ImageResults ==
  {[kind |-> "text", val |-> t] : t \in OcrTexts}
    \cup {[kind |-> "fault", val |-> e] : e \in ExcTexts}

\* deps: the two imports of lines 33-34 succeed; raster: convert_from_bytes
\* returns images or raises exc.
OcrEnvs ==
  {[deps |-> FALSE, raster |-> "fault", exc |-> <<>>, images |-> <<>>]}
    \cup {[deps |-> TRUE, raster |-> "fault", exc |-> e, images |-> <<>>] : e \in ExcTexts}
    \cup {[deps |-> TRUE, raster |-> "ok", exc |-> <<>>, images |-> im] :
            im \in SeqUpTo(ImageResults, MaxImages)}

\* rasterized: convert_from_bytes was called; ocr_calls: the images, by
\* position, handed to image_to_string, in call order
NoLibCalls ==
  [rasterized |-> FALSE, ocr_calls |-> <<>>]

\* How a call ends: kind "return" with a value, or kind "raise" with str(e).
Return(v, calls) ==
  [kind |-> "return", value |-> v, calls |-> calls]

Raise(e, calls) ==
  [kind |-> "raise", value |-> e, calls |-> calls]

-----------------------------------------------------------------------------
\* extract_text_from_pdf_bytes, lines 14-44.

\* The body of the try at lines 20-23: text_pages, or the first exception.
ReadPages(pdf_bytes) ==
  IF pdf_bytes.parse = "fault"
    THEN Raise(pdf_bytes.exc, NoLibCalls)
    ELSE LET pages == pdf_bytes.pages
             faults == {i \in 1..Len(pages) : pages[i].kind = "fault"}
         IN  IF faults # {}
               THEN Raise(pages[CHOOSE i \in faults : \A j \in faults : i <= j].val,
                          NoLibCalls)
               ELSE Return([i \in 1..Len(pages) |->
                              IF pages[i].kind = "none" THEN <<>> ELSE pages[i].val],
                           NoLibCalls)

\* Mutant of DirectExtraction: the except clause of line 24 is missing.
DirectExtraction_Uncaught(pdf_bytes) ==
  LET r == ReadPages(pdf_bytes)
  IN  IF r.kind = "raise" THEN r
      ELSE [kind |-> "pages", value |-> r.value, calls |-> NoLibCalls]

\* Lines 19-25: try ... except Exception as e: return f"PDF extraction error: {e}"
\* kind "pages" carries text_pages on to line 27.
DirectExtraction(pdf_bytes) ==
  LET r == ReadPages(pdf_bytes)
  IN  IF r.kind = "raise"
        THEN Return(PDF_ERROR_PREFIX \o r.value, NoLibCalls)
        ELSE [kind |-> "pages", value |-> r.value, calls |-> NoLibCalls]

\* Mutant of RunOcr: the OCR output is stripped like the direct text.
RunOcr_Stripped(ocr) ==
  IF ocr.raster = "fault"
    THEN Raise(ocr.exc, [rasterized |-> TRUE, ocr_calls |-> <<>>])
    ELSE LET images == ocr.images
             faults == {i \in 1..Len(images) : images[i].kind = "fault"}
             upto   == IF faults = {} THEN Len(images)
                       ELSE CHOOSE i \in faults : \A j \in faults : i <= j
             calls  == [rasterized |-> TRUE, ocr_calls |-> [i \in 1..upto |-> i]]
         IN  IF faults # {}
               THEN Raise(images[upto].val, calls)
               ELSE Return(strip(join(<<"\n">>,
                                      [i \in 1..Len(images) |-> images[i].val])),
                           calls)

\* The body of the try at lines 39-41.
RunOcr(ocr) ==
  IF ocr.raster = "fault"
    THEN Raise(ocr.exc, [rasterized |-> TRUE, ocr_calls |-> <<>>])
    ELSE LET images == ocr.images
             faults == {i \in 1..Len(images) : images[i].kind = "fault"}
             upto   == IF faults = {} THEN Len(images)
                       ELSE CHOOSE i \in faults : \A j \in faults : i <= j
             calls  == [rasterized |-> TRUE, ocr_calls |-> [i \in 1..upto |-> i]]
         IN  IF faults # {}
               THEN Raise(images[upto].val, calls)
               ELSE Return(join(<<"\n">>, [i \in 1..Len(images) |-> images[i].val]),
                           calls)

\* Lines 32-43.
OcrExtraction(ocr) ==
  IF ~ocr.deps
    THEN Return(OCR_DEPS_MSG, NoLibCalls)
    ELSE LET r == RunOcr(ocr)
         IN  IF r.kind = "raise"
               THEN Return(OCR_FAILED_PREFIX \o r.value, r.calls)
               ELSE r

\* Mutant of AfterDirect: use_ocr is tested before the direct text.
AfterDirect_OcrFirst(text_pages, use_ocr_arg, ocr) ==
  LET text == strip(join(<<"\n">>, text_pages))
  IN  IF use_ocr_arg THEN OcrExtraction(ocr)
      ELSE IF text # <<>> THEN Return(text, NoLibCalls)
      ELSE Return(NO_TEXT_MSG, NoLibCalls)

\* Mutant of AfterDirect: the .strip() of line 27 is missing.
AfterDirect_NoStrip(text_pages, use_ocr_arg, ocr) ==
  LET text == join(<<"\n">>, text_pages)
  IN  IF text # <<>> THEN Return(text, NoLibCalls)
      ELSE IF use_ocr_arg THEN OcrExtraction(ocr)
      ELSE Return(NO_TEXT_MSG, NoLibCalls)

\* Lines 27-44, given text_pages.
AfterDirect(text_pages, use_ocr_arg, ocr) ==
  LET text == strip(join(<<"\n">>, text_pages))
  IN  IF text # <<>> THEN Return(text, NoLibCalls)
      ELSE IF use_ocr_arg THEN OcrExtraction(ocr)
      ELSE Return(NO_TEXT_MSG, NoLibCalls)

extract_text_from_pdf_bytes(pdf_bytes, use_ocr_arg, ocr) ==
  IF ~PyPDF2
    THEN Return(PYPDF2_MISSING_MSG, NoLibCalls)
    ELSE LET d == DirectExtraction(pdf_bytes)
         IN  IF d.kind = "pages" THEN AfterDirect(d.value, use_ocr_arg, ocr)
             ELSE d

\* The call reaches line 32, where the OCR toolchain is first consulted.
ReachesOcr(pdf_bytes, use_ocr_arg) ==
  /\ PyPDF2
  /\ use_ocr_arg
  /\ ReadPages(pdf_bytes).kind = "return"
  /\ strip(join(<<"\n">>, ReadPages(pdf_bytes).value)) = <<>>

\* an OCR toolchain that is never consulted
NoOcr ==
  [deps |-> FALSE, raster |-> "fault", exc |-> <<>>, images |-> <<>>]

-----------------------------------------------------------------------------
\* The environment of the process.

\* code/analysis.py: absent, failing to load, or loaded and defining some of
\* the two entry points.
AnalysisFiles ==
  {[exists |-> FALSE, loads |-> FALSE, defs |-> {}],
   [exists |-> TRUE, loads |-> FALSE, defs |-> {}]}
    \cup {[exists |-> TRUE, loads |-> TRUE, defs |-> d] :
            d \in SUBSET {"summarize_text", "extract_entities"}}

\* transformers: importable or not; and, per task, whether pipeline(task, ...)
\* would construct its pipeline or raise.
HfEnvs ==
  {[installed |-> FALSE, summarization |-> FALSE, ner |-> FALSE]}
    \cup {[installed |-> TRUE, summarization |-> s, ner |-> n] :
            s \in BOOLEAN, n \in BOOLEAN}

Envs ==
  [PyPDF2 : BOOLEAN, analysis : AnalysisFiles, transformers : HfEnvs]

-----------------------------------------------------------------------------
\* Backend resolution, lines 46-74.

\* Mutant of LocalFn: each entry point is looked up under the other's name.
LocalFn_Swapped(file, name) ==
  LET other == IF name = "summarize_text" THEN "extract_entities"
               ELSE "summarize_text"
  IN  IF file.exists /\ file.loads /\ other \in file.defs THEN name ELSE "None"

\* getattr(repo_analysis, name, None) after lines 53-57, or the None of
\* lines 47-48 when the file is absent or the load raised.
LocalFn(file, name) ==
  IF file.exists /\ file.loads /\ name \in file.defs THEN name ELSE "None"

\* Lines 64-74.  The two pipeline(...) calls share one try: the first
\* exception ends the block.
HfResolution(s_fn, n_fn, hf) ==
  LET nothing == [hf_summarizer |-> "None", hf_ner |-> "None", probed |-> {}]
  IN  IF ~(s_fn = "None" \/ n_fn = "None") THEN nothing
      ELSE IF ~hf.installed THEN nothing
      ELSE LET afterS ==
                 IF s_fn # "None" THEN [nothing EXCEPT !.probed = {}]
                 ELSE IF hf.summarization
                   THEN [nothing EXCEPT !.hf_summarizer = "summarization",
                                        !.probed = {"summarization"}]
                   ELSE [nothing EXCEPT !.probed = {"summarization"}]
               raisedS == s_fn = "None" /\ ~hf.summarization
           IN  IF raisedS \/ n_fn # "None" THEN afterS
               ELSE IF hf.ner
                 THEN [afterS EXCEPT !.hf_ner = "ner",
                                     !.probed = afterS.probed \cup {"ner"}]
                 ELSE [afterS EXCEPT !.probed = afterS.probed \cup {"ner"}]

-----------------------------------------------------------------------------
\* The button handlers, lines 92-118.

\* A backend's behaviour over the calls of one handler: call i returns b[i]
\* when i <= Len(b), and raises otherwise.
BackendBehaviours(outs, ncalls) ==
  SeqUpTo(outs, ncalls)

LocalSummaries ==
  {<<"L">>}

HfSummaries ==
  {<<"s">>, <<"t", "\n">>}

LocalEntities ==
  {<<"PER">>}

HfEntities ==
  {<<>>, <<"ORG">>}

\* a call of a backend: result is Some(value returned), or None if it raised
Call(backend, arg, result) ==
  [backend |-> backend, arg |-> arg, result |-> result]

\* Mutant of chunks: the slices are one character too long and overlap.
chunks_Overlap(text) ==
  LET n == (Len(text) + MAX_CHUNK - 1) \div MAX_CHUNK
  IN  [k \in 1..n |->
         LET i == (k - 1) * MAX_CHUNK
             e == IF i + MAX_CHUNK + 1 < Len(text) THEN i + MAX_CHUNK + 1
                  ELSE Len(text)
         IN  SubSeq(text, i + 1, e)]

\* Mutant of chunks: range(0, len(extracted) + 1, MAX_CHUNK), which adds an
\* empty chunk when the length is a multiple of MAX_CHUNK.
chunks_TrailingEmpty(text) ==
  LET n == (Len(text) + MAX_CHUNK) \div MAX_CHUNK
  IN  [k \in 1..n |->
         LET i == (k - 1) * MAX_CHUNK
             e == IF i + MAX_CHUNK < Len(text) THEN i + MAX_CHUNK ELSE Len(text)
         IN  SubSeq(text, i + 1, e)]

\* Line 99: [extracted[i:i+MAX_CHUNK] for i in range(0, len(extracted), MAX_CHUNK)]
chunks(text) ==
  LET n == (Len(text) + MAX_CHUNK - 1) \div MAX_CHUNK
  IN  [k \in 1..n |->
         LET i == (k - 1) * MAX_CHUNK
             e == IF i + MAX_CHUNK < Len(text) THEN i + MAX_CHUNK ELSE Len(text)
         IN  SubSeq(text, i + 1, e)]

\* Lines 97-101, the backend behaving as b.
HfSummarize(text, b) ==
  LET cs == chunks(text)
  IN  IF Len(b) < Len(cs)
        THEN Raise(<<>>, [i \in 1..(Len(b) + 1) |->
                            Call("hf_summarizer", cs[i],
                                 IF i <= Len(b) THEN Some(b[i]) ELSE None)])
        ELSE Return(join(<<"\n", "\n">>, [i \in 1..Len(cs) |-> b[i]]),
                    [i \in 1..Len(cs) |-> Call("hf_summarizer", cs[i], Some(b[i]))])

\* One call of a backend on the full text (lines 95, 111, 114).
CallOnce(backend, text, b) ==
  IF Len(b) < 1
    THEN Raise(<<>>, <<Call(backend, text, None)>>)
    ELSE Return(b[1], <<Call(backend, text, Some(b[1]))>>)

\* Mutant of summarize_handler: the else of line 102 is missing, so that
\* line 105 reads an unassigned name.
summarize_handler_NoFallback(text, b) ==
  IF summarize_fn # "None" THEN CallOnce("summarize_fn", text, b)
  ELSE IF hf_summarizer # "None" THEN HfSummarize(text, b)
  ELSE Raise(<<>>, <<>>)

\* Lines 93-103.
summarize_handler(text, b) ==
  IF summarize_fn # "None" THEN CallOnce("summarize_fn", text, b)
  ELSE IF hf_summarizer # "None" THEN HfSummarize(text, b)
  ELSE Return(NO_SUMMARIZER_MSG, <<>>)

\* Lines 109-116.
ner_handler(text, b) ==
  IF ner_fn # "None" THEN CallOnce("ner_fn", text, b)
  ELSE IF hf_ner # "None" THEN CallOnce("hf_ner", text, b)
  ELSE Return(NO_NER_MSG, <<>>)

\* What the bound backend may do during the handler.
SummarizeBehaviours(text) ==
  IF summarize_fn # "None" THEN BackendBehaviours(LocalSummaries, 1)
  ELSE IF hf_summarizer # "None" THEN BackendBehaviours(HfSummaries, Len(chunks(text)))
  ELSE {<<>>}

NerBehaviours ==
  IF ner_fn # "None" THEN BackendBehaviours(LocalEntities, 1)
  ELSE IF hf_ner # "None" THEN BackendBehaviours(HfEntities, 1)
  ELSE {<<>>}

-----------------------------------------------------------------------------
\* The script, top to bottom.

Init ==
  /\ pc = "import"
  /\ env \in Envs
  /\ PyPDF2 = FALSE
  /\ summarize_fn = "None"
  /\ ner_fn = "None"
  /\ hf_summarizer = "None"
  /\ hf_ner = "None"
  /\ probed = {}
  /\ bytes_data = None
  /\ use_ocr = FALSE
  /\ extracted = None
  /\ ocr_env = NoOcr
  /\ lib_calls = NoLibCalls
  /\ summary = None
  /\ entities = None
  /\ backend_calls = <<>>
  /\ crash = "none"

\* Lines 9-12.
ImportPyPDF2 ==
  /\ pc = "import"
  /\ PyPDF2' = env.PyPDF2
  /\ pc' = "resolve_local"
  /\ UNCHANGED <<env, summarize_fn, ner_fn, hf_summarizer, hf_ner, probed,
                 bytes_data, use_ocr, extracted, ocr_env, lib_calls, summary, entities,
                 backend_calls, crash>>

\* Lines 47-61.
ResolveLocal ==
  /\ pc = "resolve_local"
  /\ summarize_fn' = LocalFn(env.analysis, "summarize_text")
  /\ ner_fn' = LocalFn(env.analysis, "extract_entities")
  /\ pc' = "resolve_hf"
  /\ UNCHANGED <<env, PyPDF2, hf_summarizer, hf_ner, probed, bytes_data,
                 use_ocr, extracted, ocr_env, lib_calls, summary, entities,
                 backend_calls, crash>>

\* Lines 64-74.
ResolveHf ==
  /\ pc = "resolve_hf"
  /\ LET r == HfResolution(summarize_fn, ner_fn, env.transformers)
     IN  /\ hf_summarizer' = r.hf_summarizer
         /\ hf_ner' = r.hf_ner
         /\ probed' = r.probed
  /\ pc' = "widgets"
  /\ UNCHANGED <<env, PyPDF2, summarize_fn, ner_fn, bytes_data, use_ocr,
                 extracted, ocr_env, lib_calls, summary, entities, backend_calls, crash>>

\* Lines 77-78 with nothing uploaded: the else of line 122.
NoUpload ==
  /\ pc = "widgets"
  /\ \E u \in BOOLEAN : use_ocr' = u
  /\ pc' = "done"
  /\ UNCHANGED <<env, PyPDF2, summarize_fn, ner_fn, hf_summarizer, hf_ner,
                 probed, bytes_data, extracted, ocr_env, lib_calls, summary, entities,
                 backend_calls, crash>>

\* Lines 77-84 with a file uploaded.
UploadAndExtract ==
  /\ pc = "widgets"
  /\ \E pdf \in PdfInputs, u \in BOOLEAN :
       \E ocr \in IF ReachesOcr(pdf, u) THEN OcrEnvs ELSE {NoOcr} :
         LET r == extract_text_from_pdf_bytes(pdf, u, ocr)
         IN  /\ bytes_data' = Some(pdf)
             /\ use_ocr' = u
             /\ ocr_env' = ocr
             /\ lib_calls' = r.calls
             /\ IF r.kind = "return"
                  THEN /\ extracted' = Some(r.value)
                       /\ pc' = "col1"
                       /\ crash' = crash
                  ELSE /\ extracted' = extracted
                       /\ pc' = "crashed"
                       /\ crash' = "extract_text_from_pdf_bytes"
  /\ UNCHANGED <<env, PyPDF2, summarize_fn, ner_fn, hf_summarizer, hf_ner,
                 probed, summary, entities, backend_calls>>

\* Lines 92-105, the Summarize button clicked.
Summarize ==
  /\ pc = "col1"
  /\ \E b \in SummarizeBehaviours(extracted[1]) :
       LET r == summarize_handler(extracted[1], b)
       IN  /\ backend_calls' = backend_calls \o r.calls
           /\ IF r.kind = "return"
                THEN /\ summary' = Some(r.value)
                     /\ pc' = "col2"
                     /\ crash' = crash
                ELSE /\ summary' = summary
                     /\ pc' = "crashed"
                     /\ crash' = "Summarize"
  /\ UNCHANGED <<env, PyPDF2, summarize_fn, ner_fn, hf_summarizer, hf_ner,
                 probed, bytes_data, use_ocr, extracted, ocr_env, lib_calls, entities>>

\* Mutant of SkipSummarize: rendering the column loads a missing summarizer.
SkipSummarize_LazyInit ==
  /\ pc = "col1"
  /\ pc' = "col2"
  /\ hf_summarizer' = IF summarize_fn = "None" THEN "summarization"
                      ELSE hf_summarizer
  /\ UNCHANGED <<env, PyPDF2, summarize_fn, ner_fn, hf_ner,
                 probed, bytes_data, use_ocr, extracted, ocr_env, lib_calls,
                 summary, entities, backend_calls, crash>>

\* Line 92, the Summarize button not clicked.
SkipSummarize ==
  /\ pc = "col1"
  /\ pc' = "col2"
  /\ UNCHANGED <<env, PyPDF2, summarize_fn, ner_fn, hf_summarizer, hf_ner,
                 probed, bytes_data, use_ocr, extracted, ocr_env, lib_calls, summary,
                 entities, backend_calls, crash>>

\* Lines 108-118, the Extract Entities button clicked.
ExtractEntities ==
  /\ pc = "col2"
  /\ \E b \in NerBehaviours :
       LET r == ner_handler(extracted[1], b)
       IN  /\ backend_calls' = backend_calls \o r.calls
           /\ IF r.kind = "return"
                THEN /\ entities' = Some(r.value)
                     /\ pc' = "done"
                     /\ crash' = crash
                ELSE /\ entities' = entities
                     /\ pc' = "crashed"
                     /\ crash' = "ExtractEntities"
  /\ UNCHANGED <<env, PyPDF2, summarize_fn, ner_fn, hf_summarizer, hf_ner,
                 probed, bytes_data, use_ocr, extracted, ocr_env, lib_calls, summary>>

\* Line 108, the Extract Entities button not clicked.
SkipEntities ==
  /\ pc = "col2"
  /\ pc' = "done"
  /\ UNCHANGED <<env, PyPDF2, summarize_fn, ner_fn, hf_summarizer, hf_ner,
                 probed, bytes_data, use_ocr, extracted, ocr_env, lib_calls, summary,
                 entities, backend_calls, crash>>

Next ==
  \/ ImportPyPDF2
  \/ ResolveLocal
  \/ ResolveHf
  \/ NoUpload
  \/ UploadAndExtract
  \/ Summarize
  \/ SkipSummarize
  \/ ExtractEntities
  \/ SkipEntities

Spec ==
  Init /\ [][Next]_vars

-----------------------------------------------------------------------------
\* Vocabulary of the properties, stated over the inputs rather than through
\* the operators of the model.

\* PdfReader and every page.extract_text() return without raising.
DirectOk(pdf) ==
  pdf.parse = "ok" /\ \A i \in 1..Len(pdf.pages) : pdf.pages[i].kind # "fault"

\* the text of page i, a page with no text counting as the empty string
PageTextsOf(pdf) ==
  [i \in 1..Len(pdf.pages) |->
     IF pdf.pages[i].kind = "text" THEN pdf.pages[i].val ELSE <<>>]

\* parts[1] sep parts[2] sep ... parts[n], built left to right
Joined(sep, parts) ==
  LET upto[k \in 0..Len(parts)] ==
        IF k = 0 THEN <<>>
        ELSE IF k = 1 THEN parts[1]
        ELSE upto[k - 1] \o sep \o parts[k]
  IN  upto[Len(parts)]

AllSpace(s) ==
  \A i \in 1..Len(s) : s[i] \in {" ", "\n", "\t", "\r"}

\* t is s without its leading and trailing whitespace
IsTrimOf(t, s) ==
  /\ t # <<>> => ~AllSpace(<<t[1]>>) /\ ~AllSpace(<<t[Len(t)]>>)
  /\ \E a \in 0..Len(s) :
       /\ a + Len(t) <= Len(s)
       /\ AllSpace(SubSeq(s, 1, a))
       /\ SubSeq(s, a + 1, a + Len(t)) = t
       /\ AllSpace(SubSeq(s, a + Len(t) + 1, Len(s)))

\* the newline-join of the page texts of the uploaded PDF
JoinedPages ==
  Joined(<<"\n">>, PageTextsOf(bytes_data[1]))

\* line 84 was reached with PyPDF2 imported and a PDF that parses
ExtractedDirectly ==
  /\ IsSome(bytes_data)
  /\ PyPDF2
  /\ DirectOk(bytes_data[1])

-----------------------------------------------------------------------------
\* C1: extract_text_from_pdf_bytes never raises: whatever the bytes (empty
\* bytes included), whatever use_ocr, and whatever PdfReader, extract_text,
\* the OCR imports, convert_from_bytes or image_to_string raise, the call
\* returns a string and the script goes on to the buttons.
C1_ExtractNeverRaises ==
  /\ crash # "extract_text_from_pdf_bytes"
  /\ IsSome(bytes_data) => IsSome(extracted) /\ pc # "widgets"

\* C1 witness: empty bytes, PdfReader raised, the call returned the message.
C1_Witness ==
  /\ IsSome(bytes_data)
  /\ bytes_data[1].empty
  /\ bytes_data[1].parse = "fault"
  /\ PyPDF2
  /\ IsSome(extracted)
  /\ extracted[1] = PDF_ERROR_PREFIX \o bytes_data[1].exc

\* C2: when the PDF parses and the newline-join of its page texts is not
\* empty after trimming, the call returns exactly that trimmed join and
\* neither convert_from_bytes nor image_to_string is called, with use_ocr
\* set or not.
C2_DirectTextWins ==
  (ExtractedDirectly /\ ~AllSpace(JoinedPages))
    => /\ IsSome(extracted)
       /\ IsTrimOf(extracted[1], JoinedPages)
       /\ extracted[1] # <<>>
       /\ lib_calls = NoLibCalls

\* C2 witness: two pages " a\n" and " a\n", use_ocr set, "a\n\n a" returned.
C2_Witness ==
  /\ ExtractedDirectly
  /\ use_ocr
  /\ Len(bytes_data[1].pages) = 2
  /\ JoinedPages = <<" ", "a", "\n", "\n", " ", "a", "\n">>
  /\ extracted = Some(<<"a", "\n", "\n", " ", "a">>)

\* C3: when the PDF parses, the trimmed join of its page texts is empty and
\* use_ocr is false, the call returns exactly "No extractable text found.
\* Try enabling OCR." and calls neither convert_from_bytes nor image_to_string.
C3_NoTextSentinel ==
  (ExtractedDirectly /\ AllSpace(JoinedPages) /\ ~use_ocr)
    => /\ extracted = Some(NO_TEXT_MSG)
       /\ lib_calls = NoLibCalls

\* C3 witness: a page without text and a page of one blank, use_ocr false.
C3_Witness ==
  /\ ExtractedDirectly
  /\ ~use_ocr
  /\ Len(bytes_data[1].pages) = 2
  /\ bytes_data[1].pages[1].kind = "none"
  /\ bytes_data[1].pages[2] = [kind |-> "text", val |-> <<" ">>]
  /\ extracted = Some(NO_TEXT_MSG)

\* the OCR imports succeed, convert_from_bytes returns its images and
\* image_to_string returns a string for each of them
OcrWorks ==
  /\ ocr_env.deps
  /\ ocr_env.raster = "ok"
  /\ \A i \in 1..Len(ocr_env.images) : ocr_env.images[i].kind = "text"

\* C4: when the PDF parses, the trimmed join of its page texts is empty,
\* use_ocr is true and the OCR toolchain works, the call returns the
\* newline-join of the OCR text of each rasterized page, image_to_string
\* being called once per image, in page order.
C4_OcrJoin ==
  (ExtractedDirectly /\ AllSpace(JoinedPages) /\ use_ocr /\ OcrWorks)
    => /\ extracted =
            Some(Joined(<<"\n">>, [i \in 1..Len(ocr_env.images) |->
                                     ocr_env.images[i].val]))
       /\ lib_calls.rasterized
       /\ lib_calls.ocr_calls = [i \in 1..Len(ocr_env.images) |-> i]

\* C4 witness: two images read as "x\n" and "", returned as "x\n\n".
C4_Witness ==
  /\ ExtractedDirectly
  /\ AllSpace(JoinedPages)
  /\ use_ocr
  /\ OcrWorks
  /\ Len(ocr_env.images) = 2
  /\ extracted = Some(<<"x", "\n", "\n">>)
  /\ lib_calls.ocr_calls = <<1, 2>>

-----------------------------------------------------------------------------
\* Vocabulary of the backend properties.

\* the script is past lines 46-74
Resolved ==
  pc \notin {"import", "resolve_local", "resolve_hf"}

\* code/analysis.py loads and defines the entry point
LocalFound(name) ==
  /\ env.analysis.exists
  /\ env.analysis.loads
  /\ name \in env.analysis.defs

\* the handler of the button ran (to its result, or to an exception)
SummarizeRan ==
  IsSome(summary) \/ crash = "Summarize"

NerRan ==
  IsSome(entities) \/ crash = "ExtractEntities"

CallsOf(backends) ==
  SelectSeq(backend_calls, LAMBDA c : c.backend \in backends)

SummarizerCalls ==
  CallsOf({"summarize_fn", "hf_summarizer"})

NerCalls ==
  CallsOf({"ner_fn", "hf_ner"})

Contains(s, sub) ==
  \E i \in 0..(Len(s) - Len(sub)) : SubSeq(s, i + 1, i + Len(sub)) = sub

\* C5: for each capability, when code/analysis.py provides its entry point,
\* every run of the capability's handler calls the local function, once, on
\* the full extracted text, and never a pipeline, whatever transformers
\* offers; when the file defines both entry points both capabilities are
\* bound to the local functions.
C5_LocalWins ==
  /\ (LocalFound("summarize_text") /\ SummarizeRan)
       => /\ Len(SummarizerCalls) = 1
          /\ SummarizerCalls[1].backend = "summarize_fn"
          /\ SummarizerCalls[1].arg = extracted[1]
          /\ IsSome(summary) => summary = SummarizerCalls[1].result
  /\ (LocalFound("extract_entities") /\ NerRan)
       => /\ Len(NerCalls) = 1
          /\ NerCalls[1].backend = "ner_fn"
          /\ NerCalls[1].arg = extracted[1]
          /\ IsSome(entities) => entities = NerCalls[1].result
  /\ (Resolved /\ LocalFound("summarize_text") /\ LocalFound("extract_entities"))
       => /\ summarize_fn # "None"
          /\ ner_fn # "None"
          /\ hf_summarizer = "None"
          /\ hf_ner = "None"

\* C5 witness: the file defines only summarize_text, both pipelines would
\* load, and Summarize returned the local function's result.
C5_Witness ==
  /\ env.analysis.defs = {"summarize_text"}
  /\ env.transformers.installed
  /\ env.transformers.summarization
  /\ env.transformers.ner
  /\ IsSome(summary)
  /\ Len(SummarizerCalls) = 1
  /\ SummarizerCalls[1].backend = "summarize_fn"
  /\ IsSome(entities)

\* the Summarize handler ran to its result through hf_summarizer
HfSummarizeDone ==
  /\ summarize_fn = "None"
  /\ hf_summarizer # "None"
  /\ IsSome(summary)

HfCalls ==
  CallsOf({"hf_summarizer"})

\* C6: under the inference pipeline the text is cut into consecutive chunks
\* of at most MAX_CHUNK characters whose concatenation is the text, every
\* chunk but the last having MAX_CHUNK characters (length 2500: 1000, 1000,
\* 500); the pipeline is called once per chunk, in order, and the summary is
\* the per-chunk summaries joined by a blank line.
C6_ChunkedSummary ==
  HfSummarizeDone
    => LET cs == [i \in 1..Len(HfCalls) |-> HfCalls[i].arg]
       IN  /\ SummarizerCalls = HfCalls
           /\ Joined(<<>>, cs) = extracted[1]
           /\ \A i \in 1..Len(cs) :
                /\ Len(cs[i]) <= MAX_CHUNK
                /\ i < Len(cs) => Len(cs[i]) = MAX_CHUNK
           /\ Len(extracted[1]) = 2500
                => [i \in 1..Len(cs) |-> Len(cs[i])] = <<1000, 1000, 500>>
           /\ \A i \in 1..Len(HfCalls) : IsSome(HfCalls[i].result)
           /\ summary[1] = Joined(<<"\n", "\n">>,
                                  [i \in 1..Len(HfCalls) |-> HfCalls[i].result[1]])

\* C6 witness: a text of 2500 characters, three pipeline calls returning
\* "s", "t\n" and "s", summary "s\n\nt\n\n\ns".
C6_Witness ==
  /\ HfSummarizeDone
  /\ Len(extracted[1]) = 2500
  /\ Len(HfCalls) = 3
  /\ summary = Some(<<"s", "\n", "\n", "t", "\n", "\n", "\n", "s">>)

\* line 84 returned the empty string
ExtractedEmpty ==
  IsSome(extracted) /\ extracted[1] = <<>>

\* C7 as stated: whenever the extracted text is empty, the summary and the
\* entities are absent or empty, under every backend binding.
C7_EmptyTextEmptyResult ==
  ExtractedEmpty
    => /\ summary = None \/ summary = Some(<<>>)
       /\ entities = None \/ entities = Some(<<>>)

\* C7 amended: when the extracted text is empty, a Summarize bound to the
\* inference pipeline calls the pipeline not at all and yields the empty
\* summary; with no backend the result is the capability's sentinel message;
\* with a local function, and for entities under the pipeline, the result is
\* what that backend returned for the empty text.
C7_EmptyTextResults ==
  ExtractedEmpty
    => /\ HfSummarizeDone => summary = Some(<<>>) /\ SummarizerCalls = <<>>
       /\ (IsSome(summary) /\ summarize_fn = "None" /\ hf_summarizer = "None")
            => summary = Some(NO_SUMMARIZER_MSG)
       /\ (IsSome(entities) /\ ner_fn = "None" /\ hf_ner = "None")
            => entities = Some(NO_NER_MSG)
       /\ (IsSome(summary) /\ summarize_fn # "None")
            => /\ SummarizerCalls # <<>>
               /\ SummarizerCalls[1].arg = <<>>
               /\ summary = SummarizerCalls[1].result
       /\ (IsSome(entities) /\ (ner_fn # "None" \/ hf_ner # "None"))
            => /\ NerCalls # <<>>
               /\ NerCalls[1].arg = <<>>
               /\ entities = NerCalls[1].result

\* C7 witness: OCR found nothing, and Summarize ran under the pipeline.
C7_Witness ==
  /\ ExtractedEmpty
  /\ lib_calls.rasterized
  /\ HfSummarizeDone
  /\ summary = Some(<<>>)

\* C8: when neither a local function nor a pipeline is bound for the
\* capability, its handler calls no backend, does not fail, and yields the
\* capability's sentinel, which names transformers, code/analysis.py and the
\* function to add.
C8_UnavailableSentinel ==
  /\ (Resolved /\ summarize_fn = "None" /\ hf_summarizer = "None")
       => /\ crash # "Summarize"
          /\ SummarizerCalls = <<>>
          /\ IsSome(summary)
               => /\ summary = Some(NO_SUMMARIZER_MSG)
                  /\ Contains(summary[1], TRANSFORMERS_WORD)
                  /\ Contains(summary[1], ANALYSIS_PATH_WORD)
                  /\ Contains(summary[1], SUMMARIZE_TEXT_WORD)
  /\ (Resolved /\ ner_fn = "None" /\ hf_ner = "None")
       => /\ crash # "ExtractEntities"
          /\ NerCalls = <<>>
          /\ IsSome(entities)
               => /\ entities = Some(NO_NER_MSG)
                  /\ Contains(entities[1], TRANSFORMERS_WORD)
                  /\ Contains(entities[1], ANALYSIS_PATH_WORD)
                  /\ Contains(entities[1], EXTRACT_ENTITIES_WORD)

\* C8 witness: nothing is bound and both buttons produced their sentinels.
C8_Witness ==
  /\ summarize_fn = "None"
  /\ hf_summarizer = "None"
  /\ ner_fn = "None"
  /\ hf_ner = "None"
  /\ summary = Some(NO_SUMMARIZER_MSG)
  /\ entities = Some(NO_NER_MSG)
  /\ backend_calls = <<>>

C10_IndependentProbes ==
  Resolved
    => /\ ~(summarize_fn # "None" /\ hf_summarizer # "None")
       /\ ~(ner_fn # "None" /\ hf_ner # "None")
       /\ summarize_fn = "None"
            => /\ env.transformers.installed => "summarization" \in probed
               /\ hf_summarizer # "None"
                    <=> env.transformers.installed /\ env.transformers.summarization
       /\ ner_fn = "None"
            => /\ env.transformers.installed => "ner" \in probed
               /\ hf_ner # "None"
                    <=> env.transformers.installed /\ env.transformers.ner

====
